---- MODULE Spec2Model ----
(***************************************************************************)
(* demo-blur: the two React components that segment one static image and   *)
(* composite a blurred background.                                          *)
(*                                                                          *)
(*   BlurBackground (BodyPix)            src/app/components/BlurBackground.tsx          *)
(*   BlurBackgroundMediapipe (MediaPipe) src/app/components/BlurBackgroundMediapipe.tsx *)
(*                                                                          *)
(* One mount of one component is one behaviour.  React state updates are    *)
(* queued by the handler that calls the setters and committed together by   *)
(* the next render (all setters called in one task land in one commit);     *)
(* passive effects whose dependencies changed run after the commit.  The    *)
(* image element, the model loaders and the inference calls are the         *)
(* environment: they answer at any later moment.                            *)
(***************************************************************************)
EXTENDS Integers, Sequences, FiniteSets, TLC

(***************************************************************************)
(* IEEE-754 binary64 arithmetic, for the distance of BlurBackground.tsx    *)
(* lines 116-118.  JavaScript numbers are doubles: every /, -, ** 2, + and  *)
(* Math.sqrt rounds its exact result to the nearest double, ties to even.   *)
(* Naturals wider than 31 bits are little-endian sequences of 15-bit limbs. *)
(***************************************************************************)
Limb == 32768
LimbBits == 15

RECURSIVE Trim(_)
Trim(a) == IF a = <<>> THEN a ELSE IF a[Len(a)] = 0 THEN Trim(SubSeq(a, 1, Len(a) - 1)) ELSE a

RECURSIVE FromNat(_)
FromNat(n) == IF n = 0 THEN <<>> ELSE <<n % Limb>> \o FromNat(n \div Limb)

LimbAt(a, i) == IF i <= Len(a) THEN a[i] ELSE 0

RECURSIVE AddFrom(_, _, _, _)
AddFrom(a, b, i, carry) ==
  IF i > Len(a) /\ i > Len(b)
  THEN IF carry = 0 THEN <<>> ELSE <<carry>>
  ELSE LET s == LimbAt(a, i) + LimbAt(b, i) + carry
       IN <<s % Limb>> \o AddFrom(a, b, i + 1, s \div Limb)
BigAdd(a, b) == AddFrom(a, b, 1, 0)

RECURSIVE SubFrom(_, _, _, _)
SubFrom(a, b, i, borrow) ==
  IF i > Len(a) THEN <<>>
  ELSE LET s == a[i] - LimbAt(b, i) - borrow
       IN <<s % Limb>> \o SubFrom(a, b, i + 1, IF s < 0 THEN 1 ELSE 0)
BigSub(a, b) == Trim(SubFrom(a, b, 1, 0))

RECURSIVE LessFrom(_, _, _)
LessFrom(a, b, i) ==
  IF i = 0 THEN FALSE
  ELSE IF a[i] # b[i] THEN a[i] < b[i] ELSE LessFrom(a, b, i - 1)
BigLess(a, b) == IF Len(a) # Len(b) THEN Len(a) < Len(b) ELSE LessFrom(a, b, Len(a))

RECURSIVE MulSmallFrom(_, _, _, _)
MulSmallFrom(a, s, i, carry) ==
  IF i > Len(a)
  THEN IF carry = 0 THEN <<>> ELSE <<carry>>
  ELSE LET p == a[i] * s + carry
       IN <<p % Limb>> \o MulSmallFrom(a, s, i + 1, p \div Limb)
MulSmall(a, s) == IF s = 0 THEN <<>> ELSE MulSmallFrom(a, s, 1, 0)

ShiftLimbs(a, n) == IF a = <<>> THEN a ELSE [i \in 1..n |-> 0] \o a

RECURSIVE MulFrom(_, _, _)
MulFrom(a, b, i) ==
  IF i > Len(b) THEN <<>>
  ELSE BigAdd(ShiftLimbs(MulSmall(a, b[i]), i - 1), MulFrom(a, b, i + 1))
BigMul(a, b) == MulFrom(a, b, 1)

(* <<quotient, remainder>> of a by a divisor c <= Limb *)
RECURSIVE DivSmallFrom(_, _, _, _)
DivSmallFrom(a, c, i, rem) ==
  IF i = 0 THEN <<<<>>, rem>>
  ELSE LET r == rem * Limb + a[i]
           rest == DivSmallFrom(a, c, i - 1, r % c)
       IN <<Append(rest[1], r \div c), rest[2]>>
TrimQuotient(qr) == <<Trim(qr[1]), qr[2]>>
DivSmall(a, c) == TrimQuotient(DivSmallFrom(a, c, Len(a), 0))

ShiftLeft(a, k) == ShiftLimbs(MulSmall(a, 2 ^ (k % LimbBits)), k \div LimbBits)

(* <<a shifted right by k bits, whether a nonzero bit was shifted out>> *)
WithLost(qr, lost) == <<qr[1], lost \/ qr[2] # 0>>
ShiftRight(a, k) ==
  WithLost(DivSmall(IF k \div LimbBits >= Len(a) THEN <<>>
                    ELSE SubSeq(a, k \div LimbBits + 1, Len(a)),
                    2 ^ (k % LimbBits)),
           \E i \in 1..(k \div LimbBits) : LimbAt(a, i) # 0)

BitLen(a) ==
  IF a = <<>> THEN 0
  ELSE (Len(a) - 1) * LimbBits + CHOOSE n \in 1..LimbBits : 2 ^ (n - 1) <= a[Len(a)] /\ a[Len(a)] < 2 ^ n

(* integer square root, one result bit per step from bit position hi down to lo; *)
(* st = <<remaining, partial root>>, the trial bit of step j stands at bit 2*j   *)
SqrtTry(remaining, t, half, bit) ==
  IF BigLess(remaining, t) THEN <<remaining, half>>
  ELSE <<BigSub(remaining, t), BigAdd(half, bit)>>
SqrtBit(st, bit) == SqrtTry(st[1], BigAdd(st[2], bit), DivSmall(st[2], 2)[1], bit)
SqrtStep(st, j) == SqrtBit(st, ShiftLeft(<<1>>, 2 * j))

RECURSIVE SqrtSteps(_, _, _)
RECURSIVE SqrtLower(_, _, _)
SqrtSteps(st, hi, lo) ==
  IF hi = lo THEN SqrtStep(st, hi)
  ELSE SqrtLower(SqrtSteps(st, hi, (hi + lo + 1) \div 2), (hi + lo + 1) \div 2 - 1, lo)
SqrtLower(upper, hi, lo) == IF Len(upper) = 2 THEN SqrtSteps(upper, hi, lo) ELSE upper

(* <<remainder, floor(sqrt(a))>> *)
BigSqrt(a) == SqrtSteps(<<a, <<>>>>, (BitLen(a) - 1) \div 2, 0)

(* A non-negative double is m * 2^e with 2^52 <= m < 2^53, or zero (m empty). *)
MantissaBits == 53
FZero == [m |-> <<>>, e |-> 0]

(* r * 2^e with r of 53 or, after a carry out of the rounding, 54 bits *)
Normalize(r, e) ==
  IF BitLen(r) > MantissaBits THEN [m |-> DivSmall(r, 2)[1], e |-> e + 1]
  ELSE [m |-> r, e |-> e]

(* keep = <<the 53 leading bits, the bit below them>>, sticky: a nonzero bit further down *)
RoundUp(keep, sticky, e) ==
  Normalize(IF keep[2] = 1 /\ (sticky \/ keep[1][1] % 2 = 1)
            THEN BigAdd(keep[1], <<1>>) ELSE keep[1], e)

(* g = <<the 54 leading bits, whether a nonzero bit was shifted out>> *)
RoundHalf(g, sticky, e) == RoundUp(DivSmall(g[1], 2), g[2] \/ sticky, e)

RoundBits(n, e, sticky, L) ==
  IF L = 0 THEN FZero
  ELSE IF L <= MantissaBits
       THEN [m |-> ShiftLeft(n, MantissaBits - L), e |-> e - (MantissaBits - L)]
  ELSE RoundHalf(ShiftRight(n, L - MantissaBits - 1), sticky, e + L - MantissaBits)

(* round n * 2^e (plus a nonzero remainder below it when sticky) to nearest, ties to even *)
RoundNearestEven(n, e, sticky) == RoundBits(n, e, sticky, BitLen(n))

GuardShift == 64

(* s / c for integers s >= 0, c > 0 *)
RoundQuotient(qr) == RoundNearestEven(qr[1], 0 - GuardShift, qr[2] # 0)
FDiv(s, c) == RoundQuotient(DivSmall(ShiftLeft(FromNat(s), GuardShift), c))

(* |a - w / 2|; w / 2 is exact *)
BigAbsDiff(A, C) == IF BigLess(A, C) THEN BigSub(C, A) ELSE BigSub(A, C)
AbsDiffAt(a, w, E) ==
  RoundNearestEven(BigAbsDiff(ShiftLeft(a.m, a.e - E), ShiftLeft(FromNat(w), (-1) - E)), E, FALSE)
FAbsDiffHalf(a, w) ==
  IF a.m = <<>> THEN RoundNearestEven(FromNat(w), -1, FALSE)
  ELSE AbsDiffAt(a, w, IF a.e < -1 THEN a.e ELSE -1)

FSquare(a) == IF a.m = <<>> THEN FZero ELSE RoundNearestEven(BigMul(a.m, a.m), 2 * a.e, FALSE)

AddAt(a, b, E) ==
  RoundNearestEven(BigAdd(ShiftLeft(a.m, a.e - E), ShiftLeft(b.m, b.e - E)), E, FALSE)
FAdd(a, b) ==
  IF a.m = <<>> THEN b
  ELSE IF b.m = <<>> THEN a
  ELSE AddAt(a, b, IF a.e < b.e THEN a.e ELSE b.e)

RoundRoot(st, e) == RoundNearestEven(st[2], e, st[1] # <<>>)
SqrtAt(a, s) == RoundRoot(BigSqrt(ShiftLeft(a.m, s)), (a.e - s) \div 2)
FSqrt(a) ==
  IF a.m = <<>> THEN FZero
  ELSE SqrtAt(a, IF (a.e - 56) % 2 = 0 THEN 56 ELSE 57)

FLess(a, b) ==
  IF b.m = <<>> THEN FALSE
  ELSE IF a.m = <<>> THEN TRUE
  ELSE IF a.e # b.e THEN a.e < b.e
  ELSE BigLess(a.m, b.m)

(* Math.sqrt((sumX / count - width / 2) ** 2 + (sumY / count - height / 2) ** 2) *)
FDist(sumX, sumY, count, width, height) ==
  FSqrt(FAdd(FSquare(FAbsDiffHalf(FDiv(sumX, count), width)),
             FSquare(FAbsDiffHalf(FDiv(sumY, count), height))))

(***************************************************************************)
(* Bounds of the model.                                                     *)
(***************************************************************************)
\* most person segmentations one segmentMultiPerson call returns
MaxSegs == 2
\* <<width, height>> of the decoded image, in pixels
ImageSizes == {<<1, 1>>, <<2, 2>>, <<1, 7>>}
\* how many pixels of a mask may belong to the person
MaskPixelCounts == {0, 1, 3}

Null == "null"
TheModel == "bodyPix"

(***************************************************************************)
(* Person segmentations: data is the flat mask (JavaScript index i is       *)
(* data[i + 1] here), 1 for a person pixel and 0 for background.  BodyPix   *)
(* returns every mask of one call at the size of its input, which for the   *)
(* hidden <img> is the decoded image's width and height.                    *)
(***************************************************************************)
RECURSIVE Ones(_, _)
Ones(d, i) == IF i > Len(d) THEN 0 ELSE d[i] + Ones(d, i + 1)
Masks(w, h) == {d \in [1..(w * h) -> {0, 1}] : Ones(d, 1) \in MaskPixelCounts}
Segmentations(w, h) == {[data |-> d, width |-> w, height |-> h] : d \in Masks(w, h)}
SegmentationLists(w, h) == UNION {[1..n -> Segmentations(w, h)] : n \in 0..MaxSegs}

(* the centre-of-mass loop, lines 98-113: i = y * width + x runs over 0 .. width*height-1 *)
RECURSIVE SumFrom(_, _, _)
SumFrom(seg, i, coord) ==
  IF i >= seg.width * seg.height THEN 0
  ELSE (IF seg.data[i + 1] = 1
        THEN (CASE coord = "x" -> i % seg.width
                [] coord = "y" -> i \div seg.width
                [] OTHER -> 1)
        ELSE 0) + SumFrom(seg, i + 1, coord)
SumX(seg) == SumFrom(seg, 0, "x")
SumY(seg) == SumFrom(seg, 0, "y")
Count(seg) == SumFrom(seg, 0, "count")

(* lines 116-118 for every mask the bounds allow, on an image of the mask's size; *)
(* tabulated once                                                                 *)
AllSegmentations == UNION {Segmentations(size[1], size[2]) : size \in ImageSizes}
DistTable ==
  [seg \in {s \in AllSegmentations : Count(s) > 0} |->
     FDist(SumX(seg), SumY(seg), Count(seg), seg.width, seg.height)] @@ <<>>
Dist(seg, width, height) ==
  IF width = seg.width /\ height = seg.height THEN DistTable[seg]
  ELSE FDist(SumX(seg), SumY(seg), Count(seg), width, height)

(* line 121: if (dist < minDist), minDist starting at Infinity (closest = 0: none yet) *)
CloserOrEqual(dist, minDist) == ~FLess(minDist, dist)
CloserThan(dist, minDist) == FLess(dist, minDist)

(* lines 93-125: index of the segmentation kept as closestSeg, 0 for null *)
RECURSIVE ClosestFrom(_, _, _, _, _)
ClosestFrom(segs, k, closest, width, height) ==
  IF k > Len(segs) THEN closest
  ELSE IF Count(segs[k]) = 0 THEN ClosestFrom(segs, k + 1, closest, width, height)
  ELSE IF closest = 0 \/ CloserThan(Dist(segs[k], width, height), Dist(segs[closest], width, height))
       THEN ClosestFrom(segs, k + 1, k, width, height)
       ELSE ClosestFrom(segs, k + 1, closest, width, height)
ClosestSeg(segs, width, height) == ClosestFrom(segs, 1, 0, width, height)

(***************************************************************************)
(* Pixel buffers: flat RGBA bytes, JavaScript index k is buffer[k + 1].     *)
(* The decoded image and its blur(10px) copy are produced by the browser;   *)
(* the model gives them bytes that differ at every index, so that a pixel   *)
(* of the result shows which buffer it came from.                           *)
(***************************************************************************)
ImagePixels(w, h) == [k \in 1..(4 * w * h) |-> (16 + 3 * (k - 1)) % 256]
BlurredPixels(w, h) == [k \in 1..(4 * w * h) |-> (128 + 5 * (k - 1)) % 256]

(* ctx.drawImage(img, 0, 0) on a cleared cw x ch canvas: the image is clipped *)
(* to the canvas, what it does not cover stays transparent black              *)
DrawImage(cw, ch, iw, ih, pixels) ==
  [k \in 1..(4 * cw * ch) |->
     LET x == ((k - 1) \div 4) % cw
         y == ((k - 1) \div 4) \div cw
     IN IF x < iw /\ y < ih THEN pixels[4 * (y * iw + x) + ((k - 1) % 4) + 1] ELSE 0]

(* closestSeg === null *)
NoSeg == [data |-> <<>>, width |-> 0, height |-> 0]

(* lines 154-176: 1 = blur; closest is a segmentation or NoSeg; a write past *)
(* the end of the Uint8Array is dropped                                       *)
ToBlurMaskNoneBlurred(n, closest) == [i \in 1..n |-> 0]
ToBlurMask(n, closest) ==
  [i \in 1..n |->
     IF closest # NoSeg /\ i <= closest.width * closest.height /\ closest.data[i] = 1
     THEN 0 ELSE 1]

(* lines 179-187: a read past the end of blurredData is undefined, stored as 0 *)
MergeRGB(final, blurred, toBlur) ==
  [k \in 1..Len(final) |->
     IF toBlur[((k - 1) \div 4) + 1] = 1 /\ (k - 1) % 4 # 3
     THEN (IF k <= Len(blurred) THEN blurred[k] ELSE 0)
     ELSE final[k]]
Merge(final, blurred, toBlur) ==
  [k \in 1..Len(final) |->
     IF toBlur[((k - 1) \div 4) + 1] = 1
     THEN (IF k <= Len(blurred) THEN blurred[k] ELSE 0)
     ELSE final[k]]

(* line 83 *)
NeverEmpty(multiSeg) == FALSE
NoPersonDetected(multiSeg) == Len(multiSeg) = 0

(* lines 83-188, what processImage does with the result of segmentMultiPerson *)
(* on a cw x ch canvas and an iw x ih image                                   *)
ProcessResult(multiSeg, cw, ch, iw, ih) ==
  LET drawn == DrawImage(cw, ch, iw, ih, ImagePixels(iw, ih))
  IN IF NoPersonDetected(multiSeg)
     THEN [closestSeg |-> 0, canvasData |-> drawn, blurredData |-> <<>>,
           drawCount |-> 1, blurredCreated |-> FALSE]
     ELSE LET closest == ClosestSeg(multiSeg, iw, ih)
              blurred == DrawImage(iw, ih, iw, ih, BlurredPixels(iw, ih))
              toBlur == ToBlurMask(cw * ch, IF closest = 0 THEN NoSeg ELSE multiSeg[closest])
          IN [closestSeg |-> closest, canvasData |-> Merge(drawn, blurred, toBlur),
              blurredData |-> blurred, drawCount |-> 1, blurredCreated |-> TRUE]

(***************************************************************************)
(* State.                                                                   *)
(***************************************************************************)
VARIABLES
  comp,              \* which component is mounted: "BodyPix" or "Mediapipe"
  scriptPresent,     \* Mediapipe: window.SelfieSegmentation is defined
  model,             \* BodyPix: useState model (Null or TheModel)
  error,             \* useState error (Null or a message)
  isLoading,         \* useState isLoading
  pending,           \* setter calls not yet committed by a render
  view,              \* what the last render returned: "loading", "error" or "canvas"
  effectQ,           \* passive effects of the last commit that have not run yet
  effect2Runs,       \* how often the body of the second effect has run
  loadPc,            \* loadModel: "idle", "awaiting", "resolved", "rejected", "missing"
  segRef,            \* Mediapipe: selfieSegmentationRef.current is set
  imgState,          \* the <img>: "none" (not rendered yet), "loading", "loaded", "broken"
  imgW, imgH,        \* imageElement.width / height
  onloadSet,         \* imageElement.onload is assigned
  onerrorSet,        \* imageElement.onerror is assigned
  canvasW, canvasH,  \* canvas.width / height
  procPc,            \* processImage: "idle", "segmenting", "done", "failed"
  segCalls,          \* calls of model.segmentMultiPerson / segmentation.send
  multiSegmentation, \* BodyPix: the list segmentMultiPerson resolved with
  closestSeg,        \* BodyPix: index into multiSegmentation, 0 for null
  canvasData,        \* BodyPix: RGBA bytes of the visible canvas, <<>> while blank
  blurredData,       \* BodyPix: RGBA bytes of the blurred copy, <<>> while there is none
  drawCount,         \* BodyPix: drawImage calls of the original image on the visible canvas
  blurredCreated,    \* BodyPix: the off-screen blurred canvas was created
  composites         \* writes of a result to the visible canvas

vars == <<comp, scriptPresent, model, error, isLoading, pending, view, effectQ,
          effect2Runs, loadPc, segRef, imgState, imgW, imgH, onloadSet, onerrorSet,
          canvasW, canvasH, procPc, segCalls, multiSegmentation, closestSeg,
          canvasData, blurredData, drawCount, blurredCreated, composites>>

reactVars == <<model, error, isLoading, view>>
imgVars == <<imgState, imgW, imgH>>
handlerVars == <<onloadSet, onerrorSet>>
canvasVars == <<canvasW, canvasH>>
resultVars == <<multiSegmentation, closestSeg, canvasData, blurredData, drawCount,
                blurredCreated, composites>>
fixedVars == <<comp, scriptPresent>>

(* a <canvas> rendered without width/height attributes *)
CanvasDefaultWidth == 300
CanvasDefaultHeight == 150

(***************************************************************************)
(* React.                                                                   *)
(***************************************************************************)
SetState(name, value) == [var |-> name, val |-> value]

(* the setter calls of one batch are applied in the order they were made *)
LastUpdateOnly(state, updates) ==
  [state EXCEPT ![updates[Len(updates)].var] = updates[Len(updates)].val]
RECURSIVE ApplyUpdates(_, _)
ApplyUpdates(state, updates) ==
  IF updates = <<>> THEN state
  ELSE ApplyUpdates([state EXCEPT ![Head(updates).var] = Head(updates).val], Tail(updates))

(* the three returns of the component function *)
BB_Render(err, loading) ==
  IF err # Null THEN "error" ELSE IF loading THEN "loading" ELSE "canvas"
MP_RenderLoadingFirst(err, loading) ==
  IF loading THEN "loading" ELSE IF err # Null THEN "error" ELSE "canvas"
MP_Render(err, loading) ==
  IF err # Null THEN "error" ELSE IF loading THEN "loading" ELSE "canvas"

(* dependency arrays of the second effect *)
BB_Effect2NoDeps(old, new) == FALSE
BB_Effect2DepsChanged(old, new) == old.model # new.model
MP_Effect2DepsChanged(old, new) == old.isLoading # new.isLoading \/ old.error # new.error

(* HTMLImageElement.complete: true once the request has ended, also in failure *)
ImageCompleteAlways(state) == TRUE
ImageComplete(state) == state \in {"loaded", "broken"}

(* canvas.width = imageElement.width; canvas.height = imageElement.height *)
CanvasSizeSwapped(w, h) == <<h, w>>
CanvasSizeFor(w, h) == <<w, h>>

Init ==
  /\ comp \in {"BodyPix", "Mediapipe"}
  /\ scriptPresent \in (IF comp = "Mediapipe" THEN BOOLEAN ELSE {FALSE})
  /\ model = Null
  /\ error = Null
  /\ isLoading = TRUE
  /\ pending = <<>>
  /\ view = (IF comp = "BodyPix" THEN BB_Render(Null, TRUE) ELSE MP_Render(Null, TRUE))
  /\ effectQ = <<"effect1", "effect2">>
  /\ effect2Runs = 0
  /\ loadPc = "idle"
  /\ segRef = FALSE
  /\ imgState = "none"
  /\ imgW = 0
  /\ imgH = 0
  /\ onloadSet = FALSE
  /\ onerrorSet = FALSE
  /\ canvasW = 0
  /\ canvasH = 0
  /\ procPc = "idle"
  /\ segCalls = 0
  /\ multiSegmentation = <<>>
  /\ closestSeg = 0
  /\ canvasData = <<>>
  /\ blurredData = <<>>
  /\ drawCount = 0
  /\ blurredCreated = FALSE
  /\ composites = 0

(* A render commits every queued update at once, mounts or unmounts the      *)
(* <img> and <canvas> with the view, and schedules the second effect when    *)
(* its dependencies changed.  React flushes the effects of one commit before *)
(* it renders again.                                                         *)
Commit ==
  /\ pending # <<>>
  /\ effectQ = <<>>
  /\ LET old == [model |-> model, error |-> error, isLoading |-> isLoading]
         new == ApplyUpdates(old, pending)
         newView == IF comp = "BodyPix" THEN BB_Render(new.error, new.isLoading)
                    ELSE MP_Render(new.error, new.isLoading)
         rerun == IF comp = "BodyPix" THEN BB_Effect2DepsChanged(old, new)
                  ELSE MP_Effect2DepsChanged(old, new)
         mounts == newView = "canvas" /\ view # "canvas"
     IN /\ model' = new.model
        /\ error' = new.error
        /\ isLoading' = new.isLoading
        /\ view' = newView
        /\ effectQ' = IF rerun THEN <<"effect2">> ELSE <<>>
        /\ imgState' = IF mounts THEN "loading" ELSE imgState
        /\ canvasW' = IF mounts THEN CanvasDefaultWidth ELSE canvasW
        /\ canvasH' = IF mounts THEN CanvasDefaultHeight ELSE canvasH
  /\ pending' = <<>>
  /\ UNCHANGED <<fixedVars, effect2Runs, loadPc, segRef, imgW, imgH, handlerVars,
                 procPc, segCalls, resultVars>>

(***************************************************************************)
(* BlurBackground (BodyPix).                                                *)
(***************************************************************************)
(* lines 22-40, up to the await of bodyPix.load *)
BB_RunEffect1 ==
  /\ comp = "BodyPix"
  /\ effectQ # <<>> /\ Head(effectQ) = "effect1"
  /\ effectQ' = Tail(effectQ)
  /\ pending' = Append(pending, SetState("isLoading", TRUE))
  /\ loadPc' = "awaiting"
  /\ UNCHANGED <<fixedVars, reactVars, effect2Runs, segRef, imgVars, handlerVars,
                 canvasVars, procPc, segCalls, resultVars>>

(* lines 26-37: bodyPix.load resolved; setModel, then finally setIsLoading(false) *)
BB_LoadResolved ==
  /\ comp = "BodyPix"
  /\ loadPc = "awaiting"
  /\ loadPc' = "resolved"
  /\ pending' = pending \o <<SetState("model", TheModel), SetState("isLoading", FALSE)>>
  /\ UNCHANGED <<fixedVars, reactVars, effectQ, effect2Runs, segRef, imgVars, handlerVars,
                 canvasVars, procPc, segCalls, resultVars>>

(* lines 32-37: bodyPix.load rejected; setError, then finally setIsLoading(false) *)
BB_LoadRejected ==
  /\ comp = "BodyPix"
  /\ loadPc = "awaiting"
  /\ loadPc' = "rejected"
  /\ pending' = pending \o <<SetState("error", "Failed to load the model"),
                             SetState("isLoading", FALSE)>>
  /\ UNCHANGED <<fixedVars, reactVars, effectQ, effect2Runs, segRef, imgVars, handlerVars,
                 canvasVars, procPc, segCalls, resultVars>>

(* lines 68-81: processImage up to the await of segmentMultiPerson; the refs *)
(* are set exactly while the canvas view is mounted                           *)
BB_ProcessImageStart(mdl) ==
  IF mdl = Null \/ view # "canvas"
  THEN UNCHANGED <<procPc, segCalls>>
  ELSE /\ procPc' = "segmenting"
       /\ segCalls' = segCalls + 1

(* lines 47-66 *)
BB_RunEffect2 ==
  /\ comp = "BodyPix"
  /\ effectQ # <<>> /\ Head(effectQ) = "effect2"
  /\ effectQ' = Tail(effectQ)
  /\ effect2Runs' = effect2Runs + 1
  /\ IF model = Null \/ view # "canvas"
     THEN UNCHANGED <<handlerVars, canvasVars, procPc, segCalls>>
     ELSE IF ~ImageComplete(imgState)
          THEN /\ onloadSet' = TRUE
               /\ onerrorSet' = TRUE
               /\ UNCHANGED <<canvasVars, procPc, segCalls>>
          ELSE /\ canvasW' = CanvasSizeFor(imgW, imgH)[1]
               /\ canvasH' = CanvasSizeFor(imgW, imgH)[2]
               /\ BB_ProcessImageStart(model)
               /\ UNCHANGED handlerVars
  /\ UNCHANGED <<fixedVars, reactVars, pending, loadPc, segRef, imgVars, resultVars>>

(* the image request ends well; lines 55-59 when imageElement.onload is set. *)
(* canvasRef.current! is null once the canvas view is gone: the handler      *)
(* throws before it does anything                                            *)
BB_ImgLoad ==
  /\ comp = "BodyPix"
  /\ imgState = "loading"
  /\ imgState' = "loaded"
  /\ \E size \in ImageSizes :
       /\ imgW' = size[1]
       /\ imgH' = size[2]
       /\ IF onloadSet /\ view = "canvas"
          THEN /\ canvasW' = CanvasSizeFor(size[1], size[2])[1]
               /\ canvasH' = CanvasSizeFor(size[1], size[2])[2]
               /\ BB_ProcessImageStart(model)
          ELSE UNCHANGED <<canvasVars, procPc, segCalls>>
  /\ UNCHANGED <<fixedVars, reactVars, pending, effectQ, effect2Runs, loadPc, segRef,
                 handlerVars, resultVars>>

(* the image request fails; line 60 when imageElement.onerror is set *)
BB_ImgError ==
  /\ comp = "BodyPix"
  /\ imgState = "loading"
  /\ imgState' = "broken"
  /\ pending' = IF onerrorSet THEN Append(pending, SetState("error", "Failed to load image"))
                ELSE pending
  /\ UNCHANGED <<fixedVars, reactVars, effectQ, effect2Runs, loadPc, segRef, imgW, imgH,
                 handlerVars, canvasVars, procPc, segCalls, resultVars>>

(* lines 74-188: segmentMultiPerson resolved with a list of segmentations.  *)
(* It does so only for an image that has pixels.                             *)
BB_SegmentResolved ==
  /\ comp = "BodyPix"
  /\ procPc = "segmenting"
  /\ imgState = "loaded"
  /\ \E multiSeg \in SegmentationLists(imgW, imgH) :
       IF view # "canvas"
       THEN \* canvasRef.current is null: TypeError, caught at line 189
            /\ procPc' = "failed"
            /\ pending' = Append(pending, SetState("error", "Failed to process the image"))
            /\ UNCHANGED resultVars
       ELSE LET r == ProcessResult(multiSeg, canvasW, canvasH, imgW, imgH)
            IN /\ procPc' = "done"
               /\ multiSegmentation' = multiSeg
               /\ closestSeg' = r.closestSeg
               /\ canvasData' = r.canvasData
               /\ blurredData' = r.blurredData
               /\ drawCount' = drawCount + r.drawCount
               /\ blurredCreated' = r.blurredCreated
               /\ composites' = composites + 1
               /\ UNCHANGED pending
  /\ UNCHANGED <<fixedVars, reactVars, effectQ, effect2Runs, loadPc, segRef, imgVars,
                 handlerVars, canvasVars, segCalls>>

(* lines 189-192: segmentMultiPerson threw or rejected.  For a broken image *)
(* it is the only outcome: BodyPix reads the pixels by drawing the element, *)
(* and drawImage of a broken image (lines 85, 129 too) throws.              *)
BB_SegmentRejected ==
  /\ comp = "BodyPix"
  /\ procPc = "segmenting"
  /\ procPc' = "failed"
  /\ pending' = Append(pending, SetState("error", "Failed to process the image"))
  /\ UNCHANGED <<fixedVars, reactVars, effectQ, effect2Runs, loadPc, segRef, imgVars,
                 handlerVars, canvasVars, segCalls, resultVars>>

(***************************************************************************)
(* BlurBackgroundMediapipe.                                                 *)
(***************************************************************************)
(* lines 35-67: loadModel has no await, it runs to its end inside the effect *)
MP_RunEffect1 ==
  /\ comp = "Mediapipe"
  /\ effectQ # <<>> /\ Head(effectQ) = "effect1"
  /\ effectQ' = Tail(effectQ)
  /\ IF scriptPresent
     THEN \/ /\ segRef' = TRUE
             /\ loadPc' = "resolved"
             /\ pending' = Append(pending, SetState("isLoading", FALSE))
          \/ \* new SelfieSegmentation(...) or setOptions throws
             /\ loadPc' = "rejected"
             /\ pending' = Append(pending,
                  SetState("error", "Failed to load MediaPipe SelfieSegmentation model"))
             /\ UNCHANGED segRef
     ELSE /\ loadPc' = "missing"
          /\ pending' = Append(pending,
               SetState("error", "MediaPipe SelfieSegmentation script not found on window."))
          /\ UNCHANGED segRef
  /\ UNCHANGED <<fixedVars, reactVars, effect2Runs, imgVars, handlerVars, canvasVars,
                 procPc, segCalls, resultVars>>

(* lines 87-134: processImage up to the await of segmentation.send, called *)
(* for an image of size w x h                                                *)
MP_ProcessImageStart(w, h) ==
  IF ~segRef
  THEN UNCHANGED <<canvasVars, procPc, segCalls, pending>>
  ELSE IF view # "canvas"
       THEN \* imgRef.current! / canvasRef.current! is null: TypeError, caught at line 130
            /\ procPc' = "failed"
            /\ pending' = Append(pending, SetState("error", "Failed to process the image"))
            /\ UNCHANGED <<canvasVars, segCalls>>
       ELSE /\ canvasW' = CanvasSizeFor(w, h)[1]
            /\ canvasH' = CanvasSizeFor(w, h)[2]
            /\ procPc' = "segmenting"
            /\ segCalls' = segCalls + 1
            /\ UNCHANGED pending

(* lines 73-84 *)
MP_RunEffect2 ==
  /\ comp = "Mediapipe"
  /\ effectQ # <<>> /\ Head(effectQ) = "effect2"
  /\ effectQ' = Tail(effectQ)
  /\ effect2Runs' = effect2Runs + 1
  /\ IF isLoading \/ error # Null \/ view # "canvas" \/ ~segRef
     THEN UNCHANGED <<handlerVars, canvasVars, procPc, segCalls, pending>>
     ELSE IF ~ImageComplete(imgState)
          THEN /\ onloadSet' = TRUE
               /\ onerrorSet' = TRUE
               /\ UNCHANGED <<canvasVars, procPc, segCalls, pending>>
          ELSE /\ MP_ProcessImageStart(imgW, imgH)
               /\ UNCHANGED handlerVars
  /\ UNCHANGED <<fixedVars, reactVars, loadPc, segRef, imgVars, resultVars>>

(* the image request ends well; line 80 when onload is set *)
MP_ImgLoad ==
  /\ comp = "Mediapipe"
  /\ imgState = "loading"
  /\ imgState' = "loaded"
  /\ \E size \in ImageSizes :
       /\ imgW' = size[1]
       /\ imgH' = size[2]
       /\ IF onloadSet
          THEN MP_ProcessImageStart(size[1], size[2])
          ELSE UNCHANGED <<canvasVars, procPc, segCalls, pending>>
  /\ UNCHANGED <<fixedVars, reactVars, effectQ, effect2Runs, loadPc, segRef,
                 handlerVars, resultVars>>

(* the image request fails; line 81 when onerror is set *)
MP_ImgError ==
  /\ comp = "Mediapipe"
  /\ imgState = "loading"
  /\ imgState' = "broken"
  /\ pending' = IF onerrorSet THEN Append(pending, SetState("error", "Failed to load the image"))
                ELSE pending
  /\ UNCHANGED <<fixedVars, reactVars, effectQ, effect2Runs, loadPc, segRef, imgW, imgH,
                 handlerVars, canvasVars, procPc, segCalls, resultVars>>

(* lines 101-129: MediaPipe calls onResults, then send resolves.  The        *)
(* compositing either completes or throws inside the callback (line 122).    *)
(* What send does with an image element that failed to load is MediaPipe's   *)
(* business: nothing in the component decides it.                            *)
MP_SendResults ==
  /\ comp = "Mediapipe"
  /\ procPc = "segmenting"
  /\ \/ /\ procPc' = "done"
        /\ composites' = composites + 1
        /\ UNCHANGED pending
     \/ /\ procPc' = "failed"
        /\ pending' = Append(pending, SetState("error", "Failed to composite the result"))
        /\ UNCHANGED composites
  /\ UNCHANGED <<fixedVars, reactVars, effectQ, effect2Runs, loadPc, segRef, imgVars,
                 handlerVars, canvasVars, segCalls, multiSegmentation, closestSeg,
                 canvasData, blurredData, drawCount, blurredCreated>>

(* lines 130-133: send threw or rejected *)
MP_SendRejected ==
  /\ comp = "Mediapipe"
  /\ procPc = "segmenting"
  /\ procPc' = "failed"
  /\ pending' = Append(pending, SetState("error", "Failed to process the image"))
  /\ UNCHANGED <<fixedVars, reactVars, effectQ, effect2Runs, loadPc, segRef, imgVars,
                 handlerVars, canvasVars, segCalls, resultVars>>

Next ==
  \/ Commit
  \/ BB_RunEffect1
  \/ BB_LoadResolved
  \/ BB_LoadRejected
  \/ BB_RunEffect2
  \/ BB_ImgLoad
  \/ BB_ImgError
  \/ BB_SegmentResolved
  \/ BB_SegmentRejected
  \/ MP_RunEffect1
  \/ MP_RunEffect2
  \/ MP_ImgLoad
  \/ MP_ImgError
  \/ MP_SendResults
  \/ MP_SendRejected

Spec == Init /\ [][Next]_vars

(* What BlurBackground needs to get from the resolved load to processImage: *)
(* React renders a queued update and runs a scheduled effect, the promise of *)
(* bodyPix.load settles, and the image request ends, well or not.            *)
FairSpec ==
  /\ Spec
  /\ WF_vars(Commit)
  /\ WF_vars(BB_RunEffect1)
  /\ WF_vars(BB_LoadResolved \/ BB_LoadRejected)
  /\ WF_vars(BB_RunEffect2)
  /\ WF_vars(BB_ImgLoad \/ BB_ImgError)

(***************************************************************************)
(* Properties.                                                              *)
(***************************************************************************)
BodyPixDone == comp = "BodyPix" /\ procPc = "done"
NonEmptyMasks == {k \in 1..Len(multiSegmentation) : Count(multiSegmentation[k]) > 0}
NoErrorSet == error = Null /\ \A n \in 1..Len(pending) : pending[n].var # "error"

(* The exact distance of a centroid to the centre is                        *)
(* sqrt(ExactNumerator) / (2 * count): two of them compare as the cross     *)
(* products of their squares do.                                            *)
Square(x) == x * x
ExactNumerator(seg) ==
  Square(2 * SumX(seg) - Count(seg) * imgW) + Square(2 * SumY(seg) - Count(seg) * imgH)
ExactlyCloser(a, b) ==
  ExactNumerator(a) * Square(Count(b)) < ExactNumerator(b) * Square(Count(a))
ExactlyAsClose(a, b) ==
  ExactNumerator(a) * Square(Count(b)) = ExactNumerator(b) * Square(Count(a))
ComputedDist(k) == Dist(multiSegmentation[k], imgW, imgH)

C2_NoPersonDrawsOriginal ==
  (BodyPixDone /\ Len(multiSegmentation) = 0) =>
    /\ canvasData = ImagePixels(imgW, imgH)
    /\ drawCount = 1
    /\ ~blurredCreated
    /\ blurredData = <<>>
    /\ closestSeg = 0
    /\ NoErrorSet

C2_Witness ==
  /\ BodyPixDone
  /\ Len(multiSegmentation) = 0
  /\ composites = 1
  /\ imgW * imgH > 1

LoadFailed == loadPc \in {"rejected", "missing"}

\* C3, as stated: after a model load failure the component displays the
\* CSS-blurred background-image fallback.
C3_LoadFailureShowsFallback == (LoadFailed /\ pending = <<>>) => view = "fallback"

\* C3, amended: after a model load failure (bodyPix.load rejects, or
\* window.SelfieSegmentation is missing or its construction throws) the component
\* renders the plain-text error message: error is non-null and the view is the
\* error view, never the loading text, the canvas or a blurred fallback.
C3_LoadFailureShowsError ==
  (LoadFailed /\ pending = <<>>) => (error # Null /\ view = "error")

\* the script is missing: isLoading is still true and the error is what is shown
C3_Witness ==
  /\ comp = "Mediapipe"
  /\ loadPc = "missing"
  /\ pending = <<>>
  /\ isLoading
  /\ view = "error"

\* C4: whenever a composite has been written to the visible canvas, the canvas
\* has the image element's width and height, on the onload path as on the
\* already-complete path, in both components.
C4_CanvasHasImageSize ==
  composites > 0 => (canvasW = imgW /\ canvasH = imgH)

C4_Witness ==
  /\ composites > 0
  /\ onloadSet
  /\ imgW # imgH
  /\ canvasW = imgW
  /\ canvasH = imgH

Failed == LoadFailed \/ imgState = "broken" \/ procPc = "failed"
Quiescent ==
  /\ pending = <<>>
  /\ effectQ = <<>>
  /\ loadPc \notin {"idle", "awaiting"}
  /\ procPc # "segmenting"

\* C5, as stated: once a model load failure, an image load failure (before or
\* after the second effect ran) or an exception of the segmentation or the
\* compositing has happened and every update is rendered, error is non-null and
\* the view is the error message.
C5_EveryFailureShowsError ==
  (Failed /\ Quiescent) => (error # Null /\ view = "error")

\* C6: the segmentation call is made at most once, only after the model has
\* loaded and only when the image element is complete; a composite is written
\* only when that one call returns its result; and once processImage has ended,
\* in success or in failure, nothing is run again.
C6_StepsOnceAndInOrder ==
  /\ [](segCalls <= 1 /\ composites <= segCalls)
  /\ [][/\ segCalls' > segCalls =>
             (loadPc = "resolved" /\ imgState' \in {"loaded", "broken"})
        /\ composites' > composites => (procPc = "segmenting" /\ procPc' = "done")
        /\ procPc \in {"done", "failed"} =>
             (procPc' = procPc /\ segCalls' = segCalls /\ composites' = composites)]_vars

\* the image finished loading after the effect had run, and the effect has run
\* again since the composite was written
C6_Witness ==
  /\ segCalls = 1
  /\ composites = 1
  /\ procPc = "done"
  /\ onloadSet
  /\ effect2Runs >= 2
  /\ effectQ = <<>>

\* C7: once error is non-null it stays non-null, the error view is never left,
\* the setter calls that follow a setError (the finally block's
\* setIsLoading(false)) do not undo it, and BlurBackgroundMediapipe starts no
\* segmentation call while error is non-null.
C7_ErrorIsAbsorbing ==
  /\ []((pending = <<>> /\ (LoadFailed \/ procPc = "failed")) => error # Null)
  /\ [][/\ error # Null => error' = error
        /\ view = "error" => view' = "error"
        /\ (comp = "Mediapipe" /\ error # Null) => segCalls' = segCalls]_vars

\* BlurBackgroundMediapipe in the error view, after the effect ran a third time
\* because error changed
C7_Witness ==
  /\ comp = "Mediapipe"
  /\ error # Null
  /\ view = "error"
  /\ effect2Runs = 3
  /\ effectQ = <<>>

\* C8: in BlurBackground, once bodyPix.load has resolved, processImage is
\* eventually invoked unless the image fails to load.
C8_SegmentationRuns ==
  (comp = "BodyPix" /\ loadPc = "resolved") ~> (segCalls > 0 \/ imgState = "broken")

\* processImage was invoked from onload: the effect ran while the image was loading
C8_Witness ==
  /\ comp = "BodyPix"
  /\ loadPc = "resolved"
  /\ imgState = "loaded"
  /\ onloadSet
  /\ segCalls = 1

SelectedMask == multiSegmentation[closestSeg]
PixelBytes(data, i) == <<data[4 * i - 3], data[4 * i - 2], data[4 * i - 1], data[4 * i]>>

\* C9: when a segmentation is selected and its mask has the size of the canvas,
\* every pixel of the result has the four bytes of the original image where the
\* selected mask is 1 and the four bytes of the blurred copy elsewhere, the
\* pixels of the other persons included.
C9_PersonSharpRestBlurred ==
  (BodyPixDone /\ closestSeg # 0
     /\ SelectedMask.width = canvasW /\ SelectedMask.height = canvasH) =>
    /\ blurredData = BlurredPixels(imgW, imgH)
    /\ \A i \in 1..(canvasW * canvasH) :
         PixelBytes(canvasData, i) =
           IF SelectedMask.data[i] = 1 THEN PixelBytes(ImagePixels(imgW, imgH), i)
           ELSE PixelBytes(blurredData, i)

\* a pixel of the person that was not selected, outside the selected mask
C9_Witness ==
  /\ BodyPixDone
  /\ closestSeg = 1
  /\ NonEmptyMasks = {1, 2}
  /\ \E i \in 1..(canvasW * canvasH) :
       /\ multiSegmentation[1].data[i] = 0
       /\ multiSegmentation[2].data[i] = 1
       /\ PixelBytes(canvasData, i) = PixelBytes(blurredData, i)
  /\ \E i \in 1..(canvasW * canvasH) :
       /\ multiSegmentation[1].data[i] = 1
       /\ PixelBytes(canvasData, i) = PixelBytes(ImagePixels(imgW, imgH), i)

\* C10: when every returned mask is empty, no segmentation is selected and the
\* canvas holds the fully blurred image, not the unmodified one, and no error is
\* set.
C10_AllMasksEmptyBlursAll ==
  (BodyPixDone /\ Len(multiSegmentation) > 0 /\ NonEmptyMasks = {}) =>
    /\ closestSeg = 0
    /\ blurredCreated
    /\ canvasData = BlurredPixels(imgW, imgH)
    /\ canvasData # ImagePixels(imgW, imgH)
    /\ NoErrorSet

C10_Witness ==
  /\ BodyPixDone
  /\ Len(multiSegmentation) = 2
  /\ NonEmptyMasks = {}
  /\ imgW * imgH > 1
  /\ canvasData = blurredData
====
